---------------------------- MODULE Spec2Model ----------------------------
(***************************************************************************)
(* Model of lib/paperless.py: the apt / getent wrappers and the GitHub     *)
(* release lister and release-asset downloader.                            *)
(*                                                                         *)
(* Python strings and byte strings are sequences of one-character strings  *)
(* (resp. of numbers), so that str.endswith, str.join and file writes are  *)
(* computed rather than assumed.  An optional value (None or a value) is   *)
(* the empty sequence or a one-element sequence.                           *)
(*                                                                         *)
(* The environment is nondeterministic where the code depends on it: exit  *)
(* codes, whether urlopen raises, the status and body answered, the name   *)
(* NamedTemporaryFile draws.  API answers with status 200 are well-formed  *)
(* JSON documents, and opening and writing the output file succeed.        *)
(***************************************************************************)
EXTENDS Integers, Sequences, FiniteSets, TLC

\* ------------------------------------------------------------- bounds
MaxAssets == 2      \* longest asset list a release document carries
MaxReleases == 2    \* longest release list the listing endpoint answers
MaxPkgs == 2        \* longest package sequence handed to apt_satisfy
MaxCalls == 2       \* calls made in a run

\* ------------------------------------------------------------- values
None == << >>
Some(v) == << v >>

Procs == {1, 2}

gh_paperless_user == "paperless-ngx"
gh_paperless_repo == "paperless-ngx"

Tags == {<<"v", "1">>, <<"v", "2">>}
Exts == {<<".", "x">>, <<".", "X">>}
AssetNames == {<<"a", ".", "x">>, <<"a", ".", "X">>, <<"x">>}
Digits == <<"1", "2", "3", "4", "5", "6", "7", "8", "9">>
\* download URLs are opaque to the code: the i-th asset of a release has the i-th
AssetUrl(i) == <<"u", Digits[i]>>
Bodies == {<<1>>, <<2, 2>>}
Statuses == {200, 404}
ExitCodes == {0, 1, 2}
DestPath == <<"d">>
OtherPath == <<"e">>
Destinations == {None, Some(<< >>), Some(DestPath)}
PkgSpecs == {<<"a">>, <<"b", ">", "1">>}
Users == {<<"r">>, <<"n">>}

SeqsUpTo(S, n) == UNION {[1..k -> S] : k \in 0..n}

AssetLists ==
    {[i \in 1..Len(names) |->
        [name |-> names[i], browser_download_url |-> AssetUrl(i)]] :
            names \in SeqsUpTo(AssetNames, MaxAssets)}
ReleaseInfos == {[assets |-> a] : a \in AssetLists}
Releases == [tag_name : Tags, draft : BOOLEAN]
ReleaseLists == SeqsUpTo(Releases, MaxReleases)
PackageArgs ==
    {[type |-> "str", value |-> s] : s \in PkgSpecs}
        \cup {[type |-> "bytes", value |-> s] : s \in PkgSpecs}
        \cup {[type |-> "list", value |-> l] : l \in SeqsUpTo(PkgSpecs, MaxPkgs)}

\* ------------------------------------------------------------- state
VARIABLES
    world,          \* the run's setting: who calls, with which download
                    \* arguments, and the release documents the API serves
    calls,          \* the calls made so far
    fs,             \* the filesystem: path -> content of each existing file
    pc,             \* per caller: where it stands
    op,             \* per caller: the function it runs
    args,           \* per caller: the arguments of the running call
    release_info,   \* per caller: parsed release document (optional)
    asset_url,      \* per caller: selected download URL (optional)
    response,       \* per caller: the open asset response (optional)
    output,         \* per caller: the open output file (optional)
    requests,       \* per caller: the requests of the running call, each
                    \* with the status answered (0: urlopen raised)
    releases,       \* per caller: parsed release list (optional)
    cmd,            \* per caller: the command run by the running call (optional)
    result,         \* per caller: the value returned (optional)
    error,          \* per caller: the exception raised (optional)
    fs_at_call,     \* per caller: the filesystem when the call started
    disturbed       \* per caller: another caller touched its open output file

vars == <<world, calls, fs, pc, op, args, release_info, asset_url, response,
          output, requests, releases, cmd, result, error, fs_at_call, disturbed>>

env == <<world>>

\* the URLs of the two API endpoints
ReleasesUrl(user, repo) == <<"repos", user, repo, "releases">>
ReleaseTagUrl(user, repo, tag) == <<"repos", user, repo, "releases", "tags", tag>>

\* a request made: its URL and the status answered (0: urlopen raised)
Request(url, status) == [url |-> url, status |-> status]

\* what urlopen can do: raise, or answer with a status and a body
UrlOpenOutcomes(bodies, unread) ==
    {[status |-> 0, raised |-> TRUE, body |-> unread]}
        \cup {[status |-> 200, raised |-> FALSE, body |-> b] : b \in bodies}
        \cup {[status |-> s, raised |-> FALSE, body |-> unread] :
                    s \in Statuses \ {200}}

\* the asset request: the body of every answer is read, whatever the status
AssetOutcomes ==
    {[status |-> 0, raised |-> TRUE, body |-> << >>]}
        \cup {[status |-> s, raised |-> FALSE, body |-> b] :
                    s \in Statuses, b \in Bodies}

\* ------------------------------------------------------------- pure helpers

\* the exceptions, by what they carry
HttpError(status) == [type |-> "HTTP error", status |-> status]
UrlOpenError == [type |-> "URLError"]
\* variant: the two values of the message exchanged
NoAssetError_Swapped(extension, tag) ==
    [type |-> "No asset", tag |-> extension, extension |-> tag]
NoAssetError(extension, tag) ==
    [type |-> "No asset", tag |-> tag, extension |-> extension]

\* str.endswith(suffix)
EndsWith(s, suffix) ==
    /\ Len(suffix) <= Len(s)
    /\ SubSeq(s, Len(s) - Len(suffix) + 1, Len(s)) = suffix

\* bool(destination) of an optional string: None and "" are falsy
Truthy(d) == d # None /\ d[1] # << >>

RECURSIVE JoinFrom(_, _, _)
JoinFrom(sep, items, i) ==
    IF i > Len(items) THEN << >>
    ELSE IF i = Len(items) THEN items[i]
    ELSE items[i] \o sep \o JoinFrom(sep, items, i + 1)

\* sep.join(items)
Join(sep, items) == JoinFrom(sep, items, 1)

\* variant: every iterable counts, strings included
is_iterish_AnyIterable(obj) ==
    obj.type \in {"str", "bytes", "bytearray", "list"}

\* is_iterish(obj): iterable, and not a str / bytes / bytearray
is_iterish(obj) ==
    LET iterable == obj.type \in {"str", "bytes", "bytearray", "list"}
    IN  IF iterable THEN obj.type \notin {"str", "bytes", "bytearray"}
        ELSE FALSE

\* the strings iterating obj yields: the elements of a list, the
\* one-character strings of a string
Elements(obj) ==
    IF obj.type = "list" THEN obj.value
    ELSE [i \in 1..Len(obj.value) |-> <<obj.value[i]>>]

\* the specification argument apt_satisfy builds from its parameter
SatisfyArg(packages) ==
    IF is_iterish(packages) THEN Join(<<",", " ">>, Elements(packages))
    ELSE packages.value

\* a command that ran: its arguments, its environment and its exit code
SatisfyCmd(packages, code) ==
    [argv |-> <<"apt", "satisfy", "-y", SatisfyArg(packages)>>,
     environ |-> "DEBIAN_FRONTEND=noninteractive", returncode |-> code]

UpdateCmd(code) ==
    [argv |-> <<"apt-get", "update">>, environ |-> "inherited",
     returncode |-> code]

GetentCmd(user, code) ==
    [argv |-> <<"getent", "passwd", user>>, environ |-> "inherited",
     returncode |-> code]

CalledProcessError(code) == [type |-> "CalledProcessError", returncode |-> code]

\* variant: subprocess.call, which reports the exit code without raising
CheckCall_NoRaise(code) == None

\* check_call: the exception raised on the exit code, if any
CheckCall(code) == IF code = 0 THEN None ELSE Some(CalledProcessError(code))

\* the try / except of linux_user_exists
UserExists(code) == IF CheckCall(code) = None THEN TRUE ELSE FALSE

\* variant: the status is not looked at
StatusOk_Unchecked(status) == TRUE

\* response.status != 200, negated
StatusOk(status) == status = 200

\* variant: the body of a non-200 answer is discarded
ReadBody_CheckStatus(resp) == IF resp.status = 200 THEN resp.body ELSE << >>

\* response.read() of the asset response
ReadBody(resp) == resp.body

\* variant: the tags newest-last
TagNames_Reversed(rels) ==
    [i \in 1..Len(rels) |-> rels[Len(rels) + 1 - i].tag_name]

\* the list comprehension of gh_list_releases
TagNames(rels) == [i \in 1..Len(rels) |-> rels[i].tag_name]

RECURSIVE FindAssetFrom(_, _, _)
FindAssetFrom(assets, extension, i) ==
    IF i > Len(assets) THEN None
    ELSE IF EndsWith(assets[i].name, extension)
         THEN Some(assets[i].browser_download_url)
         ELSE FindAssetFrom(assets, extension, i + 1)

RECURSIVE FindAssetNoBreakFrom(_, _, _, _)
FindAssetNoBreakFrom(assets, extension, i, found) ==
    IF i > Len(assets) THEN found
    ELSE FindAssetNoBreakFrom(assets, extension, i + 1,
            IF EndsWith(assets[i].name, extension)
            THEN Some(assets[i].browser_download_url)
            ELSE found)

\* variant: the loop without its break, which keeps the last match
FindAsset_NoBreak(assets, extension) ==
    FindAssetNoBreakFrom(assets, extension, 1, None)

\* the asset loop of gh_download_release_asset
FindAsset(assets, extension) == FindAssetFrom(assets, extension, 1)

\* names NamedTemporaryFile can generate for a suffix
RandChars == <<"p", "q">>
\* variant: the suffix is not passed on
TempName_NoSuffix(k, suffix) == <<"t", "m", "p", RandChars[k]>>
TempName(k, suffix) == <<"t", "m", "p", RandChars[k]>> \o suffix
FreshTempNames(files, suffix) ==
    {TempName(k, suffix) : k \in 1..Len(RandChars)} \ DOMAIN files

\* variant: an existing file is opened without truncation
Truncate_Keep(files, path) ==
    IF path \in DOMAIN files THEN files ELSE (path :> << >>) @@ files

\* open(path, "wb"): create or truncate
Truncate(files, path) == (path :> << >>) @@ files

\* write of data at offset pos of a file of content c
WriteAt(c, pos, data) ==
    LET n == IF Len(c) > pos + Len(data) THEN Len(c) ELSE pos + Len(data)
    IN  [i \in 1..n |->
            IF i > pos /\ i <= pos + Len(data) THEN data[i - pos]
            ELSE IF i <= Len(c) THEN c[i]
            ELSE 0]

\* the path the output file is opened at
OutputNames(files, destination, extension) ==
    IF Truthy(destination) THEN {destination[1]}
    ELSE FreshTempNames(files, extension)

\* the callers whose open output file is the file at path, other than p
OthersOn(p, path) ==
    {q \in Procs \ {p} :
        output[q] # None /\ ~output[q][1].closed /\ output[q][1].name = path}

Disturb(p, path) ==
    [q \in Procs |-> IF q \in OthersOn(p, path) THEN TRUE ELSE disturbed[q]]

\* ------------------------------------------------------------- calls

Ready(p) ==
    /\ p \in world.callers
    /\ pc[p] \in {"idle", "returned", "raised"}
    /\ calls < MaxCalls

\* a call starts: fresh frame
Enter(p, f, a, at) ==
    /\ Ready(p)
    /\ calls' = calls + 1
    /\ op' = [op EXCEPT ![p] = f]
    /\ args' = [args EXCEPT ![p] = a]
    /\ pc' = [pc EXCEPT ![p] = at]
    /\ release_info' = [release_info EXCEPT ![p] = None]
    /\ asset_url' = [asset_url EXCEPT ![p] = None]
    /\ response' = [response EXCEPT ![p] = None]
    /\ output' = [output EXCEPT ![p] = None]
    /\ requests' = [requests EXCEPT ![p] = << >>]
    /\ releases' = [releases EXCEPT ![p] = None]
    /\ cmd' = [cmd EXCEPT ![p] = None]
    /\ result' = [result EXCEPT ![p] = None]
    /\ error' = [error EXCEPT ![p] = None]
    /\ fs_at_call' = [fs_at_call EXCEPT ![p] = fs]
    /\ disturbed' = [disturbed EXCEPT ![p] = FALSE]
    /\ UNCHANGED <<env, fs>>

\* a call that runs one command and ends, returning value or raising exc
RunCommand(p, f, a, c, value, exc) ==
    /\ Ready(p)
    /\ calls' = calls + 1
    /\ op' = [op EXCEPT ![p] = f]
    /\ args' = [args EXCEPT ![p] = a]
    /\ cmd' = [cmd EXCEPT ![p] = Some(c)]
    /\ pc' = [pc EXCEPT ![p] = IF exc = None THEN "returned" ELSE "raised"]
    /\ result' = [result EXCEPT ![p] = IF exc = None THEN Some(value) ELSE None]
    /\ error' = [error EXCEPT ![p] = exc]
    /\ release_info' = [release_info EXCEPT ![p] = None]
    /\ asset_url' = [asset_url EXCEPT ![p] = None]
    /\ response' = [response EXCEPT ![p] = None]
    /\ output' = [output EXCEPT ![p] = None]
    /\ requests' = [requests EXCEPT ![p] = << >>]
    /\ releases' = [releases EXCEPT ![p] = None]
    /\ fs_at_call' = [fs_at_call EXCEPT ![p] = fs]
    /\ disturbed' = [disturbed EXCEPT ![p] = FALSE]
    /\ UNCHANGED <<env, fs>>

apt_update(p) ==
    \E code \in ExitCodes :
        RunCommand(p, "apt_update", [none |-> TRUE], UpdateCmd(code),
                   None, CheckCall(code))

apt_satisfy(p) ==
    \E packages \in PackageArgs, code \in ExitCodes :
        RunCommand(p, "apt_satisfy", [packages |-> packages],
                   SatisfyCmd(packages, code), None, CheckCall(code))

linux_user_exists(p) ==
    \E user \in Users, code \in ExitCodes :
        RunCommand(p, "linux_user_exists", [user |-> user],
                   GetentCmd(user, code), UserExists(code), None)

gh_list_releases(p) ==
    \E r \in UrlOpenOutcomes(ReleaseLists, << >>) :
        LET user == gh_paperless_user
            repo == gh_paperless_repo
            raised == r.raised
            status == r.status
            body == r.body
            ok == ~raised /\ StatusOk(status)
        IN  /\ Ready(p)
            /\ calls' = calls + 1
            /\ op' = [op EXCEPT ![p] = "gh_list_releases"]
            /\ args' = [args EXCEPT ![p] = [user |-> user, repo |-> repo]]
            /\ requests' = [requests EXCEPT ![p] =
                    <<Request(ReleasesUrl(user, repo), status)>>]
            /\ releases' = [releases EXCEPT ![p] = IF ok THEN Some(body) ELSE None]
            /\ result' = [result EXCEPT ![p] =
                            IF ok THEN Some(TagNames(body)) ELSE None]
            /\ error' = [error EXCEPT ![p] =
                            IF raised THEN Some(UrlOpenError)
                            ELSE IF ~StatusOk(status) THEN Some(HttpError(status))
                            ELSE None]
            /\ pc' = [pc EXCEPT ![p] = IF ok THEN "returned" ELSE "raised"]
            /\ release_info' = [release_info EXCEPT ![p] = None]
            /\ asset_url' = [asset_url EXCEPT ![p] = None]
            /\ response' = [response EXCEPT ![p] = None]
            /\ output' = [output EXCEPT ![p] = None]
            /\ cmd' = [cmd EXCEPT ![p] = None]
            /\ fs_at_call' = [fs_at_call EXCEPT ![p] = fs]
            /\ disturbed' = [disturbed EXCEPT ![p] = FALSE]
            /\ UNCHANGED <<env, fs>>

\* ------------------------------------------------------------- gh_download_release_asset

gh_download_release_asset(p) ==
    \E tag \in world.tags, extension \in world.extensions,
       destination \in world.destinations :
        Enter(p, "gh_download_release_asset",
              [user |-> gh_paperless_user, repo |-> gh_paperless_repo,
               tag |-> tag, extension |-> extension,
               destination |-> destination],
              "release")

\* with urlopen(url) as response: status check, read, json.loads
RequestRelease(p) ==
    /\ pc[p] = "release"
    /\ \E r \in UrlOpenOutcomes(world.releases, [assets |-> << >>]) :
        LET url == ReleaseTagUrl(args[p].user, args[p].repo, args[p].tag)
            raised == r.raised
            status == r.status
            body == r.body
            ok == ~raised /\ StatusOk(status)
        IN  /\ requests' = [requests EXCEPT ![p] =
                                Append(@, Request(url, status))]
            /\ release_info' = [release_info EXCEPT ![p] =
                                    IF ok THEN Some(body) ELSE None]
            /\ error' = [error EXCEPT ![p] =
                            IF raised THEN Some(UrlOpenError)
                            ELSE IF ~StatusOk(status) THEN Some(HttpError(status))
                            ELSE None]
            /\ pc' = [pc EXCEPT ![p] = IF ok THEN "select" ELSE "raised"]
    /\ UNCHANGED <<env, calls, fs, op, args, asset_url, response, output,
                   releases, cmd, result, fs_at_call, disturbed>>

\* the asset loop and the check of its outcome
SelectAsset(p) ==
    /\ pc[p] = "select"
    /\ LET found == FindAsset(release_info[p][1].assets, args[p].extension)
       IN  /\ asset_url' = [asset_url EXCEPT ![p] = found]
           /\ error' = [error EXCEPT ![p] =
                IF found = None
                THEN Some(NoAssetError(args[p].extension, args[p].tag))
                ELSE None]
           /\ pc' = [pc EXCEPT ![p] = IF found = None THEN "raised" ELSE "asset"]
    /\ UNCHANGED <<env, calls, fs, op, args, release_info, response, output,
                   requests, releases, cmd, result, fs_at_call, disturbed>>

\* variant: the output file is opened before the asset is requested
RequestAsset_OpenFirst(p) ==
    /\ pc[p] = "asset"
    /\ \E r \in AssetOutcomes,
          name \in OutputNames(fs, args[p].destination, args[p].extension) :
        /\ fs' = Truncate(fs, name)
        /\ disturbed' = Disturb(p, name)
        /\ requests' = [requests EXCEPT ![p] =
                Append(@, Request(asset_url[p][1], r.status))]
        /\ response' = [response EXCEPT ![p] =
                IF r.raised THEN None
                ELSE Some([status |-> r.status, body |-> r.body,
                           closed |-> FALSE])]
        /\ output' = [output EXCEPT ![p] =
                IF r.raised THEN None
                ELSE Some([name |-> name, pos |-> 0, closed |-> FALSE])]
        /\ error' = [error EXCEPT ![p] =
                IF r.raised THEN Some(UrlOpenError) ELSE None]
        /\ pc' = [pc EXCEPT ![p] = IF r.raised THEN "raised" ELSE "write"]
    /\ release_info' = [release_info EXCEPT ![p] = None]
    /\ UNCHANGED <<env, calls, op, args, asset_url, releases, cmd, result,
                   fs_at_call>>

\* urlopen(asset_url): no check of the status.  release_info is not read
\* again from here on and is dropped from the state.
RequestAsset(p) ==
    /\ pc[p] = "asset"
    /\ \E r \in AssetOutcomes :
        /\ requests' = [requests EXCEPT ![p] =
                Append(@, Request(asset_url[p][1], r.status))]
        /\ response' = [response EXCEPT ![p] =
                IF r.raised THEN None
                ELSE Some([status |-> r.status, body |-> r.body,
                           closed |-> FALSE])]
        /\ error' = [error EXCEPT ![p] =
                IF r.raised THEN Some(UrlOpenError) ELSE None]
        /\ pc' = [pc EXCEPT ![p] = IF r.raised THEN "raised" ELSE "open"]
    /\ release_info' = [release_info EXCEPT ![p] = None]
    /\ UNCHANGED <<env, calls, fs, op, args, asset_url, output,
                   releases, cmd, result, fs_at_call, disturbed>>

\* open(destination, "wb") or NamedTemporaryFile(suffix=extension, delete=False)
OpenOutput(p) ==
    /\ pc[p] = "open"
    /\ \E name \in OutputNames(fs, args[p].destination, args[p].extension) :
        /\ fs' = Truncate(fs, name)
        /\ output' = [output EXCEPT ![p] =
                        Some([name |-> name, pos |-> 0, closed |-> FALSE])]
        /\ disturbed' = Disturb(p, name)
    /\ pc' = [pc EXCEPT ![p] = "write"]
    /\ UNCHANGED <<env, calls, op, args, release_info, asset_url, response,
                   requests, releases, cmd, result, error, fs_at_call>>

\* output.write(response.read())
WriteOutput(p) ==
    /\ pc[p] = "write"
    /\ LET o == output[p][1]
           data == ReadBody(response[p][1])
       IN  /\ fs' = [fs EXCEPT ![o.name] = WriteAt(@, o.pos, data)]
           /\ output' = [output EXCEPT ![p] =
                            Some([o EXCEPT !.pos = @ + Len(data)])]
           /\ disturbed' = Disturb(p, o.name)
    /\ pc' = [pc EXCEPT ![p] = "return"]
    /\ UNCHANGED <<env, calls, op, args, release_info, asset_url, response,
                   requests, releases, cmd, result, error, fs_at_call>>

\* return output.name, leaving the with block
ReturnName(p) ==
    /\ pc[p] = "return"
    /\ result' = [result EXCEPT ![p] = Some(output[p][1].name)]
    /\ output' = [output EXCEPT ![p] = Some([@[1] EXCEPT !.closed = TRUE])]
    /\ response' = [response EXCEPT ![p] = Some([@[1] EXCEPT !.closed = TRUE])]
    /\ pc' = [pc EXCEPT ![p] = "returned"]
    /\ UNCHANGED <<env, calls, fs, op, args, release_info, asset_url, requests,
                   releases, cmd, error, fs_at_call, disturbed>>

\* ------------------------------------------------------------- specifications

InitFrame ==
    /\ fs = << >>
    /\ calls = 0
    /\ pc = [p \in Procs |-> "idle"]
    /\ op = [p \in Procs |-> "none"]
    /\ args = [p \in Procs |-> [none |-> TRUE]]
    /\ release_info = [p \in Procs |-> None]
    /\ asset_url = [p \in Procs |-> None]
    /\ response = [p \in Procs |-> None]
    /\ output = [p \in Procs |-> None]
    /\ requests = [p \in Procs |-> << >>]
    /\ releases = [p \in Procs |-> None]
    /\ cmd = [p \in Procs |-> None]
    /\ result = [p \in Procs |-> None]
    /\ error = [p \in Procs |-> None]
    /\ fs_at_call = [p \in Procs |-> << >>]
    /\ disturbed = [p \in Procs |-> FALSE]

\* one caller, any release document
Init ==
    /\ world = [releases |-> ReleaseInfos, callers |-> {1}, tags |-> Tags,
                extensions |-> Exts, destinations |-> Destinations]
    /\ InitFrame

Next ==
    \E p \in Procs :
        \/ apt_update(p)
        \/ apt_satisfy(p)
        \/ linux_user_exists(p)
        \/ gh_list_releases(p)
        \/ gh_download_release_asset(p)
        \/ RequestRelease(p)
        \/ SelectAsset(p)
        \/ RequestAsset(p)
        \/ OpenOutput(p)
        \/ WriteOutput(p)
        \/ ReturnName(p)

Spec == Init /\ [][Next]_vars

\* two callers downloading concurrently one asset of one release, to the
\* same explicit path or to temporary files
RaceRelease ==
    [assets |-> <<[name |-> <<"a", ".", "x">>, browser_download_url |-> AssetUrl(1)]>>]

InitRace ==
    /\ world = [releases |-> {RaceRelease}, callers |-> Procs,
                tags |-> {<<"v", "1">>}, extensions |-> {<<".", "x">>},
                destinations |-> {None, Some(DestPath), Some(OtherPath)}]
    /\ InitFrame

NextRace ==
    \E p \in Procs :
        \/ gh_download_release_asset(p)
        \/ RequestRelease(p)
        \/ SelectAsset(p)
        \/ RequestAsset(p)
        \/ OpenOutput(p)
        \/ WriteOutput(p)
        \/ ReturnName(p)

SpecRace == InitRace /\ [][NextRace]_vars

\* ------------------------------------------------------------- properties

Downloading(p) == op[p] = "gh_download_release_asset"

\* s = prefix \o t for some prefix
HasSuffix(s, t) == \E k \in 0..Len(s) : s = SubSeq(s, 1, k) \o t

\* the indices of the assets whose name has the suffix
Matching(assets, extension) ==
    {i \in 1..Len(assets) : HasSuffix(assets[i].name, extension)}

Lowest(S) == CHOOSE i \in S : \A j \in S : i <= j

\* C1: the download URL is that of the lowest-index asset whose name ends with
\* the extension, and it is the only asset URL the call requests.
C1_FirstMatchingAsset ==
    \A p \in Procs : Downloading(p) =>
        /\ pc[p] = "asset" =>
            LET assets == release_info[p][1].assets
                M == Matching(assets, args[p].extension)
            IN  /\ M # {}
                /\ asset_url[p] = Some(assets[Lowest(M)].browser_download_url)
                /\ \A j \in M \ {Lowest(M)} :
                      asset_url[p] # Some(assets[j].browser_download_url)
        /\ Len(requests[p]) <= 2
        /\ Len(requests[p]) = 2 => requests[p][2].url = asset_url[p][1]

\* C1 witness: two assets match and the first one's URL was selected
C1_Witness ==
    \E p \in Procs :
        /\ Downloading(p) /\ pc[p] = "asset"
        /\ Cardinality(Matching(release_info[p][1].assets, args[p].extension)) >= 2
        /\ asset_url[p] = Some(AssetUrl(1))

\* C2: a 200 release document without a matching asset ends the call in the
\* asset-not-found error naming the extension and the tag; no path is returned.
C2_NoAssetRaises ==
    \A p \in Procs :
        (/\ Downloading(p)
         /\ release_info[p] # None
         /\ pc[p] # "select"
         /\ Matching(release_info[p][1].assets, args[p].extension) = {})
        => /\ pc[p] = "raised"
           /\ error[p] = Some([type |-> "No asset",
                               tag |-> args[p].tag,
                               extension |-> args[p].extension])
           /\ result[p] = None
           /\ requests[p][1].status = 200

\* C2 witness: the only asset differs from the extension in case alone
C2_Witness ==
    \E p \in Procs :
        /\ Downloading(p) /\ pc[p] = "raised"
        /\ error[p] # None /\ error[p][1].type = "No asset"
        /\ args[p].extension = <<".", "x">>
        /\ Len(release_info[p][1].assets) = 1
        /\ release_info[p][1].assets[1].name = <<"a", ".", "X">>

\* C3: a first response with a status other than 200 ends gh_list_releases
\* and gh_download_release_asset in the error carrying that status; the body
\* is not parsed and nothing is returned.
C3_StatusErrorCarriesCode ==
    \A p \in Procs :
        (/\ op[p] \in {"gh_list_releases", "gh_download_release_asset"}
         /\ Len(requests[p]) >= 1
         /\ requests[p][1].status \notin {0, 200})
        => /\ pc[p] = "raised"
           /\ error[p] = Some([type |-> "HTTP error",
                               status |-> requests[p][1].status])
           /\ releases[p] = None
           /\ release_info[p] = None
           /\ asset_url[p] = None
           /\ result[p] = None
           /\ Len(requests[p]) = 1

\* C3 witness: the release lookup was answered 404
C3_Witness ==
    \E p \in Procs :
        /\ Downloading(p) /\ pc[p] = "raised"
        /\ Len(requests[p]) = 1 /\ requests[p][1].status = 404

\* the asset response of a finished download
Fetched(p) == response[p][1].body

\* what holds of a returned temporary path
ReturnedTemp(p) ==
    /\ result[p] # args[p].destination
    /\ result[p][1] \notin DOMAIN fs_at_call[p]
    /\ HasSuffix(result[p][1], args[p].extension)
    /\ result[p][1] \in DOMAIN fs
    /\ fs[result[p][1]] = Fetched(p)

\* what holds of a returned destination
ReturnedDestination(p) ==
    /\ result[p] = args[p].destination
    /\ result[p][1] \in DOMAIN fs
    /\ fs[result[p][1]] = Fetched(p)

\* C4 as stated: any destination given is returned and holds the fetched bytes,
\* and only without a destination is a generated path returned.
C4_Original ==
    \A p \in Procs : (Downloading(p) /\ pc[p] = "returned") =>
        IF args[p].destination # None THEN ReturnedDestination(p)
        ELSE ReturnedTemp(p)

\* C4 amended: a non-empty destination is returned and holds exactly the
\* fetched bytes; with no destination or an empty one the returned path is
\* newly generated, ends with the extension, and the file exists with the
\* fetched bytes.
C4_ReturnedPath ==
    \A p \in Procs : (Downloading(p) /\ pc[p] = "returned") =>
        /\ result[p] # None
        /\ IF args[p].destination # None /\ args[p].destination[1] # << >>
           THEN ReturnedDestination(p)
           ELSE ReturnedTemp(p)

\* C4 witness: the destination held longer content before the call
C4_Witness ==
    \E p \in Procs :
        /\ Downloading(p) /\ pc[p] = "returned"
        /\ args[p].destination = Some(DestPath)
        /\ DestPath \in DOMAIN fs_at_call[p]
        /\ Len(fs_at_call[p][DestPath]) > Len(Fetched(p))
        /\ fs[DestPath] = Fetched(p)

\* C5: once the asset request is answered, whatever the status, the call does
\* not fail: the body is written and the path returned as for a 200.
C5_AssetStatusUnchecked ==
    \A p \in Procs :
        (/\ Downloading(p)
         /\ Len(requests[p]) = 2
         /\ requests[p][2].status # 0)
        => /\ pc[p] \in {"open", "write", "return", "returned"}
           /\ error[p] = None
           /\ response[p] # None
           /\ response[p][1].status = requests[p][2].status
           /\ pc[p] \in {"return", "returned"} =>
                /\ output[p][1].name \in DOMAIN fs
                /\ fs[output[p][1].name] = response[p][1].body
           /\ pc[p] = "returned" => result[p] = Some(output[p][1].name)

\* C5 witness: a 404 answer's body was written and the path returned
C5_Witness ==
    \E p \in Procs :
        /\ Downloading(p) /\ pc[p] = "returned"
        /\ requests[p][2].status = 404
        /\ fs[result[p][1]] = <<2, 2>>

\* C6: the tags returned are the tag_name of each release, in the server's
\* order, one per release.
C6_TagsInServerOrder ==
    \A p \in Procs :
        (op[p] = "gh_list_releases" /\ releases[p] # None) =>
            /\ pc[p] = "returned"
            /\ result[p] # None
            /\ Len(result[p][1]) = Len(releases[p][1])
            /\ \A i \in 1..Len(releases[p][1]) :
                  result[p][1][i] = releases[p][1][i].tag_name

\* C6 witness: two releases, returned in the server's (descending) order
C6_Witness ==
    \E p \in Procs :
        /\ op[p] = "gh_list_releases" /\ pc[p] = "returned"
        /\ result[p] = Some(<< <<"v", "2">>, <<"v", "1">> >>)

RECURSIVE CommaSeparated(_)
CommaSeparated(l) ==
    IF l = << >> THEN << >>
    ELSE IF Len(l) = 1 THEN l[1]
    ELSE CommaSeparated(SubSeq(l, 1, Len(l) - 1)) \o <<",", " ">> \o l[Len(l)]

\* C7: apt satisfy gets one specification argument: the string itself, or the
\* elements joined with ", " in order; a one-element sequence gives its element.
C7_SatisfyArgument ==
    \A p \in Procs : op[p] = "apt_satisfy" =>
        LET packages == args[p].packages
            argv == cmd[p][1].argv
        IN  /\ Len(argv) = 4
            /\ SubSeq(argv, 1, 3) = <<"apt", "satisfy", "-y">>
            /\ packages.type = "str" => argv[4] = packages.value
            /\ packages.type = "list" => argv[4] = CommaSeparated(packages.value)
            /\ (packages.type = "list" /\ Len(packages.value) = 1)
                  => argv[4] = packages.value[1]

\* C7 witness: two specifications joined in input order
C7_Witness ==
    \E p \in Procs :
        /\ op[p] = "apt_satisfy"
        /\ args[p].packages =
              [type |-> "list", value |-> << <<"b", ">", "1">>, <<"a">> >>]
        /\ cmd[p][1].argv[4] = <<"b", ">", "1", ",", " ", "a">>

\* C8: linux_user_exists returns true exactly on exit 0 and false, without
\* raising, otherwise; apt_update and apt_satisfy raise on a non-zero exit.
C8_NonZeroExit ==
    \A p \in Procs :
        /\ op[p] = "linux_user_exists" =>
            /\ pc[p] = "returned"
            /\ error[p] = None
            /\ result[p] = Some(cmd[p][1].returncode = 0)
        /\ op[p] \in {"apt_update", "apt_satisfy"} =>
            IF cmd[p][1].returncode = 0
            THEN pc[p] = "returned" /\ error[p] = None
            ELSE /\ pc[p] = "raised"
                 /\ result[p] = None
                 /\ error[p] = Some([type |-> "CalledProcessError",
                                     returncode |-> cmd[p][1].returncode])

\* C8 witness: getent exited 2 and the call returned false
C8_Witness ==
    \E p \in Procs :
        /\ op[p] = "linux_user_exists" /\ pc[p] = "returned"
        /\ cmd[p][1].returncode = 2
        /\ result[p] = Some(FALSE)

\* C9: under concurrent callers, a call about to return whose output file no
\* other caller opened or wrote meanwhile leaves exactly its fetched bytes in
\* the file; the guarantee is lost when calls on one path overlap.
C9_ExactUnlessOverlap ==
    \A p \in Procs :
        (Downloading(p) /\ pc[p] = "return" /\ ~disturbed[p]) =>
            /\ output[p][1].name \in DOMAIN fs
            /\ fs[output[p][1].name] = Fetched(p)

\* C9 witness: both callers returned the same explicit path and the file holds
\* neither caller's bytes
C9_Witness ==
    /\ \A p \in Procs : Downloading(p) /\ pc[p] = "returned"
    /\ result[1] = Some(DestPath) /\ result[2] = Some(DestPath)
    /\ fs[DestPath] # Fetched(1)
    /\ fs[DestPath] # Fetched(2)

\* C10: the steps of a download are ordered (release request, selection, asset
\* request, open, write); a call that raised has left the filesystem as it
\* was, and issued one request unless it is the asset request that failed.
C10_OrderAndFrame ==
    \A p \in Procs : Downloading(p) =>
        /\ Len(requests[p]) <= 2
        /\ asset_url[p] # None =>
              Len(requests[p]) >= 1 /\ requests[p][1].status = 200
        /\ Len(requests[p]) = 2 => asset_url[p] # None
        /\ response[p] # None => Len(requests[p]) = 2
        /\ output[p] # None => response[p] # None
        /\ fs # fs_at_call[p] => output[p] # None
        /\ (output[p] # None /\ fs[output[p][1].name] # << >>) =>
              pc[p] \in {"return", "returned"}
        /\ pc[p] = "raised" =>
              /\ fs = fs_at_call[p]
              /\ output[p] = None
              /\ result[p] = None
              /\ error[p][1].type \in {"HTTP error", "No asset"} =>
                    Len(requests[p]) = 1
              /\ error[p][1].type = "URLError" =>
                    requests[p][Len(requests[p])].status = 0

\* C10 witness: the asset request failed and the destination, which existed,
\* still holds what it held
C10_Witness ==
    \E p \in Procs :
        /\ Downloading(p) /\ pc[p] = "raised"
        /\ Len(requests[p]) = 2
        /\ args[p].destination = Some(DestPath)
        /\ DestPath \in DOMAIN fs
        /\ fs[DestPath] = <<2, 2>>

=============================================================================
